---------------------------- MODULE Spec2Model ----------------------------
(***************************************************************************)
(* Model of the Athena query provider of aws-athena: the inline Lambda     *)
(* handler on_event (lib/work-group.ts, handlerCode) that submits the      *)
(* Create/Update/Delete statement of a Custom::AthenaDatabase or           *)
(* Custom::AthenaTable resource, polls the query execution and answers the *)
(* CloudFormation lifecycle event through cfnresponse.send.                *)
(*                                                                         *)
(* One invocation is a sequence of steps separated by the calls to the     *)
(* query service: OnEvent (lines 367-381), StartQueryExecution (383-393),  *)
(* GetQueryExecution (395-407), Sleep (409 and the loop test of 395).      *)
(* Return ends the invocation and lets the framework deliver a new event.  *)
(*                                                                         *)
(* The second half models the constructs that produce the handler's        *)
(* events: WorkGroup, Database, Table, RowFormat, FileFormat and           *)
(* QueryProvider (lib/work-group.ts, lib/props.ts and their earlier        *)
(* standalone versions), which render a stack's resources when an app is   *)
(* built, and the order in which a deployment provisions those resources.  *)
(***************************************************************************)
EXTENDS Integers, Sequences, FiniteSets, TLC

VARIABLES
    pc,              \* position of the handler: idle, submit, poll, sleep, done
    event,           \* the lifecycle event of the current invocation
    physical_id,     \* local physical_id, Unbound until line 368 has run
    queryString,     \* local queryString
    workGroup,       \* local workGroup
    query_id,        \* local query_id
    num_attempts,    \* local num_attempts
    execution_state, \* local execution_state
    raised,          \* an exception left on_event
    caught,          \* the exception the except clause caught, or NoException
    sends,           \* cfnresponse.send calls of this invocation, in order
    fieldsRead,      \* ResourceProperties keys read by this invocation
    startCalls,      \* start_query_execution calls of this invocation
    getCalls,        \* get_query_execution calls of this invocation (their ids)
    polled,          \* states returned by get_query_execution, summarised
    sleeps,          \* number of time.sleep calls of this invocation
    slept,           \* total time slept in this invocation
    logged,          \* lines printed or logged by this invocation
    callsAfterSend,  \* query-service calls made after a response was sent
    responses        \* every response sent so far, over all invocations

VARIABLES
    phase,           \* "build" while constructs are created, then "deploy"
    nodes,           \* paths of the constructs in the app's construct tree
    providers,       \* paths of the QueryProviders constructed, in order
    workGroups,      \* the CfnWorkGroup resources rendered
    customResources, \* the Custom::Athena* resources rendered
    declared,        \* the WorkGroup constructor calls made: path and props
    rowFormat,       \* the last RowFormat.serde call: arguments and result
    created,         \* resources the deployment has created
    deleted          \* resources the deployment has deleted

handlerVars == << pc, event, physical_id, queryString, workGroup, query_id,
           num_attempts, execution_state, raised, caught, sends, fieldsRead,
           startCalls, getCalls, polled, sleeps, slept, logged,
           callsAfterSend, responses >>

constructVars == << phase, nodes, providers, workGroups, customResources,
                    declared, rowFormat, created, deleted >>

vars == << handlerVars, constructVars >>

---------------------------------------------------------------------------
(* Values *)

Unbound == "<unbound>"
NoException == "<none>"

RequestIds == { "", "r1" }
RequestTypes == { "Create", "Update", "Delete", "Replace" }
EventKeys == { "RequestId", "RequestType", "ResourceProperties" }
PropKeys == { "CreateQueryString", "UpdateQueryString", "DeleteQueryString", "WorkGroup" }
QueryIds == { "q1", "q2" }
Reasons == { "syntax error" }

\* The value of each property. on_event treats the values as opaque strings;
\* each key gets its own value so that the statement selected is observable.
PropValue(k) ==
    CASE k = "CreateQueryString" -> "CREATE DATABASE IF NOT EXISTS hello"
      [] k = "UpdateQueryString" -> "ALTER DATABASE hello"
      [] k = "DeleteQueryString" -> "DROP DATABASE IF EXISTS hello CASCADE"
      [] k = "WorkGroup" -> "workgroup"

\* Athena's QueryExecutionState, plus a value outside the documented five.
NonTerminal == { "QUEUED", "RUNNING" }
Terminal == { "SUCCEEDED", "FAILED", "CANCELLED" }
States == NonTerminal \cup Terminal \cup { "UNKNOWN" }

\* A lifecycle event: a dict with some of the expected keys; ResourceProperties
\* is a dict with some of the property keys.
Events ==
    { [ keys |-> K,
        RequestId |-> rid,
        RequestType |-> rt,
        ResourceProperties |-> [ k \in P |-> PropValue(k) ] ] :
        K \in SUBSET EventKeys, rid \in RequestIds, rt \in RequestTypes,
        P \in SUBSET PropKeys }

\* Normal forms: an absent key has no value.
WellFormedEvent(ev) ==
    /\ ("RequestId" \notin ev.keys => ev.RequestId = "")
    /\ ("RequestType" \notin ev.keys => ev.RequestType = "Create")
    /\ ("ResourceProperties" \notin ev.keys => DOMAIN ev.ResourceProperties = {})

NoEvent == [ keys |-> {}, RequestId |-> "", RequestType |-> "Create",
             ResourceProperties |-> << >> ]

sleep_amount == 2
max_attempts == 20

SUCCESS == "SUCCESS"
FAILED == "FAILED"
EmptyData == << >>

---------------------------------------------------------------------------
(* on_event, lines 368-381: the reads of the event before the first call *)

\* Variant of PhysicalId that forgets to append the RequestId.
PhysicalId_NoRequestId(rid) == "AthenaQuery"

\* Line 368: physical_id = 'AthenaQuery' + event['RequestId']
PhysicalId(rid) == "AthenaQuery" \o rid

\* Variant of SelectedKey in which an Update reads the Create statement.
SelectedKey_UpdateReadsCreate(rt) ==
    CASE rt = "Create" -> "CreateQueryString"
      [] rt = "Update" -> "CreateQueryString"
      [] rt = "Delete" -> "DeleteQueryString"
      [] OTHER -> ""

\* Variant of SelectedKey in which any other request type reads the Create
\* statement.
SelectedKey_OtherReadsCreate(rt) ==
    CASE rt = "Create" -> "CreateQueryString"
      [] rt = "Update" -> "UpdateQueryString"
      [] rt = "Delete" -> "DeleteQueryString"
      [] OTHER -> "CreateQueryString"

\* The property key selected by the request type, "" when none is.
SelectedKey(rt) ==
    CASE rt = "Create" -> "CreateQueryString"
      [] rt = "Update" -> "UpdateQueryString"
      [] rt = "Delete" -> "DeleteQueryString"
      [] OTHER -> ""

\* Result of lines 368-381 on ev: the exception raised (or NoException), the
\* locals bound when it was raised and the property keys read.
ReadEvent(ev) ==
    LET unbound == [ exc |-> NoException, physical_id |-> Unbound,
                     queryString |-> Unbound, workGroup |-> Unbound, read |-> {} ]
        sel == SelectedKey(ev.RequestType)
        hasProps == "ResourceProperties" \in ev.keys
        props == ev.ResourceProperties
    IN  IF "RequestId" \notin ev.keys
        THEN [ unbound EXCEPT !.exc = "KeyError: RequestId" ]
        ELSE LET s1 == [ unbound EXCEPT !.physical_id = PhysicalId(ev.RequestId) ]
        IN  IF "RequestType" \notin ev.keys
            THEN [ s1 EXCEPT !.exc = "KeyError: RequestType" ]
            ELSE IF sel # "" /\ ~hasProps
            THEN [ s1 EXCEPT !.exc = "KeyError: ResourceProperties", !.queryString = "" ]
            ELSE IF sel # "" /\ sel \notin DOMAIN props
            THEN [ s1 EXCEPT !.exc = "KeyError: " \o sel, !.queryString = "" ]
            ELSE LET s2 == [ s1 EXCEPT !.queryString = IF sel = "" THEN "" ELSE props[sel],
                                       !.read = IF sel = "" THEN {} ELSE { sel } ]
            IN  IF ~hasProps
                THEN [ s2 EXCEPT !.exc = "KeyError: ResourceProperties" ]
                ELSE IF "WorkGroup" \notin DOMAIN props
                THEN [ s2 EXCEPT !.exc = "KeyError: WorkGroup" ]
                ELSE [ s2 EXCEPT !.workGroup = props["WorkGroup"],
                                 !.read = s2.read \cup { "WorkGroup" } ]

---------------------------------------------------------------------------
(* cfnresponse.send and the except clause *)

Response(ev, status, data, pid) ==
    [ Status |-> status, Data |-> data, PhysicalResourceId |-> pid,
      RequestId |-> ev.RequestId ]

\* cfnresponse.send(event, context, status, data, physical_id)
Send(ev, status, data, pid) ==
    /\ sends' = Append(sends, Response(ev, status, data, pid))
    /\ responses' = responses \cup { Response(ev, status, data, pid) }

\* Variant of ExceptClause that logs the exception and sends nothing.
ExceptClause_NoSend(ev, exc, pid) ==
    /\ caught' = exc
    /\ logged' = logged \cup { "exception" }
    /\ raised' = FALSE
    /\ UNCHANGED << sends, responses >>

\* Variant of ExceptClause that reports SUCCESS.
ExceptClause_SendsSuccess(ev, exc, pid) ==
    /\ caught' = exc
    /\ logged' = logged \cup { "exception" }
    /\ IF pid = Unbound
       THEN /\ raised' = TRUE
            /\ UNCHANGED << sends, responses >>
       ELSE /\ raised' = FALSE
            /\ Send(ev, SUCCESS, EmptyData, pid)

\* except Exception as e: logger.exception(e); send(FAILED, {}, physical_id).
\* Reading physical_id while it is unbound raises UnboundLocalError, which
\* leaves on_event.
ExceptClause(ev, exc, pid) ==
    /\ caught' = exc
    /\ logged' = logged \cup { "exception" }
    /\ IF pid = Unbound
       THEN /\ raised' = TRUE
            /\ UNCHANGED << sends, responses >>
       ELSE /\ raised' = FALSE
            /\ Send(ev, FAILED, EmptyData, pid)

---------------------------------------------------------------------------
(* The poll loop's tests *)

\* Line 395: while execution_state == 'RUNNING' or execution_state == 'QUEUED'
LoopTest(state) == state = "RUNNING" \/ state = "QUEUED"

\* Variant of Branch whose ceiling test is strict.
Branch_StrictCeiling(state, n) ==
    IF state = "SUCCEEDED" THEN "succeeded"
    ELSE IF state = "CANCELLED" \/ state = "FAILED" \/ n > max_attempts THEN "failed"
    ELSE "continue"

\* Variant of Branch without the ceiling test.
Branch_NoCeiling(state, n) ==
    IF state = "SUCCEEDED" THEN "succeeded"
    ELSE IF state = "CANCELLED" \/ state = "FAILED" THEN "failed"
    ELSE "continue"

\* Variant of Branch whose elif does not test FAILED.
Branch_FailedContinues(state, n) ==
    IF state = "SUCCEEDED" THEN "succeeded"
    ELSE IF state = "CANCELLED" \/ n >= max_attempts THEN "failed"
    ELSE "continue"

\* Variant of Branch whose if does not test SUCCEEDED.
Branch_SucceededContinues(state, n) ==
    IF state = "CANCELLED" \/ state = "FAILED" \/ n >= max_attempts THEN "failed"
    ELSE "continue"

\* Lines 400-407: the branch taken after a poll returned state as attempt n.
Branch(state, n) ==
    IF state = "SUCCEEDED" THEN "succeeded"
    ELSE IF state = "CANCELLED" \/ state = "FAILED" \/ n >= max_attempts THEN "failed"
    ELSE "continue"

\* Variant of AfterBranch whose branches do not break out of the loop.
AfterBranch_NoBreak(branch) == "sleep"

\* Lines 403, 407 and 409: a branch that sent its response breaks out of the
\* loop, the other pass goes on to time.sleep.
AfterBranch(branch) == IF branch = "continue" THEN "sleep" ELSE "done"

---------------------------------------------------------------------------
(* The state machine *)

\* No construct exists and no RowFormat.serde call has been made.
NoRowFormat == [ called |-> FALSE, serdeName |-> "", given |-> << >>,
                 after |-> << >>, statement |-> "" ]

ConstructInit ==
    /\ phase = "build"
    /\ nodes = {}
    /\ providers = << >>
    /\ workGroups = {}
    /\ customResources = {}
    /\ declared = {}
    /\ rowFormat = NoRowFormat
    /\ created = {}
    /\ deleted = {}

HandlerInit ==
    /\ pc = "idle"
    /\ event = NoEvent
    /\ physical_id = Unbound
    /\ queryString = Unbound
    /\ workGroup = Unbound
    /\ query_id = Unbound
    /\ num_attempts = 0
    /\ execution_state = Unbound
    /\ raised = FALSE
    /\ caught = NoException
    /\ sends = << >>
    /\ fieldsRead = {}
    /\ startCalls = << >>
    /\ getCalls = << >>
    /\ polled = [ nonTerminal |-> 0, unknown |-> FALSE, reason |-> Unbound ]
    /\ sleeps = 0
    /\ slept = 0
    /\ logged = {}
    /\ callsAfterSend = 0
    /\ responses = {}

Init == HandlerInit /\ ConstructInit

\* The framework invokes on_event(ev, context); lines 367-381.
OnEvent(ev) ==
    /\ pc = "idle"
    /\ UNCHANGED constructVars
    /\ WellFormedEvent(ev)
    /\ LET r == ReadEvent(ev)
       IN  /\ event' = ev
           /\ physical_id' = r.physical_id
           /\ queryString' = r.queryString
           /\ workGroup' = r.workGroup
           /\ fieldsRead' = r.read
           /\ IF r.exc = NoException
              THEN /\ pc' = "submit"
                   /\ UNCHANGED << raised, caught, sends, responses, logged >>
              ELSE /\ pc' = "done"
                   /\ ExceptClause(ev, r.exc, r.physical_id)
    /\ UNCHANGED << query_id, num_attempts, execution_state, startCalls,
                    getCalls, polled, sleeps, slept, callsAfterSend >>

\* Lines 383-393: client.start_query_execution either raises or returns an
\* execution id; the loop variables are initialised and the loop is entered
\* (execution_state = 'RUNNING' makes the first test true).
StartQueryExecution(throws, qid) ==
    /\ pc = "submit"
    /\ UNCHANGED constructVars
    /\ startCalls' = Append(startCalls, [ QueryString |-> queryString, WorkGroup |-> workGroup ])
    /\ callsAfterSend' = callsAfterSend + (IF Len(sends) > 0 THEN 1 ELSE 0)
    /\ IF throws
       THEN /\ pc' = "done"
            /\ ExceptClause(event, "start_query_execution", physical_id)
            /\ UNCHANGED << query_id, num_attempts, execution_state >>
       ELSE /\ pc' = "poll"
            /\ query_id' = qid
            /\ num_attempts' = 0
            /\ execution_state' = "RUNNING"
            /\ UNCHANGED << raised, caught, sends, responses, logged >>
    /\ UNCHANGED << event, physical_id, queryString, workGroup, fieldsRead,
                    getCalls, polled, sleeps, slept >>

\* Lines 396-407: one pass of the loop body up to the sleep. The service
\* raises, or returns a state with or without a StateChangeReason.
GetQueryExecution(throws, state, reason) ==
    /\ pc = "poll"
    /\ UNCHANGED constructVars
    /\ getCalls' = Append(getCalls, query_id)
    /\ callsAfterSend' = callsAfterSend + (IF Len(sends) > 0 THEN 1 ELSE 0)
    /\ IF throws
       THEN /\ pc' = "done"
            /\ ExceptClause(event, "get_query_execution", physical_id)
            /\ UNCHANGED << num_attempts, execution_state, polled >>
       ELSE /\ num_attempts' = num_attempts + 1
            /\ execution_state' = state
            /\ polled' = [ nonTerminal |-> polled.nonTerminal + (IF state \in NonTerminal THEN 1 ELSE 0),
                           unknown |-> polled.unknown \/ state \notin (NonTerminal \cup Terminal),
                           reason |-> reason ]
            /\ IF Branch(state, num_attempts') = "succeeded"
               THEN /\ pc' = AfterBranch("succeeded")
                    /\ logged' = logged \cup { "Query succeeded" }
                    /\ Send(event, SUCCESS, EmptyData, physical_id)
                    /\ UNCHANGED << raised, caught >>
               ELSE IF Branch(state, num_attempts') = "failed"
               THEN IF reason = Unbound
                    THEN /\ pc' = "done"
                         /\ ExceptClause(event, "KeyError: StateChangeReason", physical_id)
                    ELSE /\ pc' = AfterBranch("failed")
                         /\ logged' = logged \cup { "Query failed or cancelled: " \o reason }
                         /\ Send(event, SUCCESS, EmptyData, physical_id)
                         /\ UNCHANGED << raised, caught >>
               ELSE /\ pc' = AfterBranch("continue")
                    /\ UNCHANGED << raised, caught, sends, responses, logged >>
    /\ UNCHANGED << event, physical_id, queryString, workGroup, query_id,
                    fieldsRead, startCalls, sleeps, slept >>

\* Line 409 followed by the loop test of line 395.
Sleep ==
    /\ pc = "sleep"
    /\ UNCHANGED constructVars
    /\ sleeps' = sleeps + 1
    /\ slept' = slept + sleep_amount
    /\ pc' = IF LoopTest(execution_state) THEN "poll" ELSE "done"
    /\ UNCHANGED << event, physical_id, queryString, workGroup, query_id,
                    num_attempts, execution_state, raised, caught, sends,
                    fieldsRead, startCalls, getCalls, polled, logged,
                    callsAfterSend, responses >>

\* on_event has returned or raised; the locals die with the invocation.
Return ==
    /\ pc = "done"
    /\ UNCHANGED constructVars
    /\ pc' = "idle"
    /\ event' = NoEvent
    /\ physical_id' = Unbound
    /\ queryString' = Unbound
    /\ workGroup' = Unbound
    /\ query_id' = Unbound
    /\ num_attempts' = 0
    /\ execution_state' = Unbound
    /\ raised' = FALSE
    /\ caught' = NoException
    /\ sends' = << >>
    /\ fieldsRead' = {}
    /\ startCalls' = << >>
    /\ getCalls' = << >>
    /\ polled' = [ nonTerminal |-> 0, unknown |-> FALSE, reason |-> Unbound ]
    /\ sleeps' = 0
    /\ slept' = 0
    /\ logged' = {}
    /\ callsAfterSend' = 0
    /\ UNCHANGED responses

Next ==
    \/ pc = "idle" /\ \E ev \in Events : OnEvent(ev)
    \/ \E throws \in BOOLEAN, qid \in QueryIds : StartQueryExecution(throws, qid)
    \/ \E throws \in BOOLEAN, state \in States, reason \in Reasons \cup { Unbound } :
          GetQueryExecution(throws, state, reason)
    \/ Sleep
    \/ Return

Spec == Init /\ [][Next]_vars

---------------------------------------------------------------------------
(* Construct layer: values *)

\* An optional property: None when undefined, Some(v) when given.
None == << >>
Some(v) == << v >>

\* JavaScript truthiness of an optional boolean and of an optional string.
TruthyBool(o) == o # None /\ o[1]
TruthyStr(o) == o # None /\ o[1] # ""

\* `${x}` for an optional string x.
Interpolate(o) == IF o = None THEN "undefined" ELSE o[1]

\* Array.prototype.join
RECURSIVE Join(_, _)
Join(strs, sep) ==
    IF Len(strs) = 0 THEN ""
    ELSE IF Len(strs) = 1 THEN strs[1]
    ELSE strs[1] \o sep \o Join(Tail(strs), sep)

---------------------------------------------------------------------------
(* lib/props.ts: RowFormat and FileFormat *)

\* RowFormat.escapeSpecialCharacters
EscapeSpecialCharacters(character) ==
    IF character \in { ";", "\\", "'" } THEN "\\" \o character ELSE character

\* RowFormat.delimiters(fieldDelimiter?, escapeCharacter?, lineTerminator?,
\* mapKeyTerminator?).statement
Delimiters(fieldDelimiter, escapeCharacter, lineTerminator, mapKeyTerminator) ==
    "DELIMITED FIELDS TERMINATED BY '"
       \o (IF TruthyStr(fieldDelimiter) THEN fieldDelimiter[1] ELSE ",") \o "'"
       \o (IF TruthyStr(escapeCharacter)
           THEN " ESCAPED BY '" \o EscapeSpecialCharacters(escapeCharacter[1]) \o "'"
           ELSE "")
       \o (IF TruthyStr(mapKeyTerminator)
           THEN "\nMAP KEYS TERMINATED BY '" \o EscapeSpecialCharacters(mapKeyTerminator[1]) \o "'"
           ELSE "")
       \o (IF TruthyStr(lineTerminator)
           THEN "\nLINES TERMINATED BY '" \o EscapeSpecialCharacters(lineTerminator[1]) \o "'"
           ELSE "")

\* The callback of serdeProperties.map in RowFormat.serde. The expression
\* inside the template is the assignment serdeProperty[0] = '${serdeProperty[1]}'
\* whose right-hand side is a single-quoted literal: it overwrites the key of
\* the caller's pair and its value is what the template renders.
SerdeProperty(serdeProperty) ==
    LET assigned == "${serdeProperty[1]}"
    IN  [ rendered |-> "'" \o assigned \o "'",
          after |-> [ serdeProperty EXCEPT ![1] = assigned ] ]

\* RowFormat.serde(serdeName, serdeProperties?): the statement of the new
\* RowFormat and the caller's array after the call.
Serde(serdeName, serdeProperties) ==
    IF serdeProperties # None /\ Len(serdeProperties[1]) > 0
    THEN LET ps == serdeProperties[1]
             mapped == [ i \in 1..Len(ps) |-> SerdeProperty(ps[i]) ]
         IN  [ statement |-> "SERDE " \o serdeName \o " WITH SERDEPROPERTIES ("
                                \o Join([ i \in 1..Len(ps) |-> mapped[i].rendered ], ",")
                                \o ")",
               after |-> Some([ i \in 1..Len(ps) |-> mapped[i].after ]) ]
    ELSE [ statement |-> "SERDE " \o serdeName, after |-> serdeProperties ]

\* FileFormat.TEXTFILE.statement and FileFormat.fromClassNames(...).statement
TEXTFILE == "TEXTFILE"
FromClassNames(inputFormatClassName, outputFormatClassName) ==
    "INPUTFORMAT '" \o inputFormatClassName \o "' OUTPUTFORMAT '"
       \o outputFormatClassName \o "'"

---------------------------------------------------------------------------
(* lib/work-group.ts: QueryProvider *)

\* Variant of StackOf that takes the scope itself as the provider's parent.
StackOf_IsScope(scope) == scope

\* Stack.of(scope): the stack is the root of the scope's path.
StackOf(scope) == << scope[1] >>

ProviderId == "com.amazonaws.cdk.athena.query-provider"

\* parent.node.tryFindChild(id)
TryFindChild(ns, parent, id) == Append(parent, id) \in ns

\* QueryProvider.getOrCreate(scope) in a tree st: the tree afterwards and the
\* provider returned.
GetOrCreate(st, scope) ==
    LET stack == StackOf(scope)
        x == Append(stack, ProviderId)
    IN  IF TryFindChild(st.nodes, stack, ProviderId)
        THEN [ st |-> st, provider |-> x ]
        ELSE [ st |-> [ st EXCEPT !.nodes = @ \cup { x },
                                  !.providers = Append(@, x) ],
               provider |-> x ]

\* new cfn.CustomResource(scope, 'Resource', { provider, resourceType,
\* properties }): undefined properties are left out of the resource.
CustomResource(scope, provider, resourceType, create, delete, wgName, dependsOn) ==
    [ path |-> Append(scope, "Resource"),
      type |-> resourceType,
      provider |-> provider,
      properties |->
          [ k \in (IF wgName = None THEN PropKeys \ { "WorkGroup" } ELSE PropKeys) |->
              CASE k = "CreateQueryString" -> create
                [] k = "UpdateQueryString" -> create
                [] k = "DeleteQueryString" -> delete
                [] k = "WorkGroup" -> wgName[1] ],
      dependsOn |-> dependsOn ]

---------------------------------------------------------------------------
(* lib/work-group.ts: Table and Database *)

\* Table.constructor: createQueryString
TableCreateQueryString(databaseName, t) ==
    LET columns == Join([ i \in 1..Len(t.columns) |->
                            t.columns[i][1] \o " " \o t.columns[i][2] ], ",")
    IN  "\n      CREATE EXTERNAL TABLE IF NOT EXISTS " \o Interpolate(databaseName)
           \o "." \o t.name \o " (" \o columns \o ")"
           \o "\n      ROW FORMAT " \o t.rowFormat
           \o "\n      STORED AS " \o t.fileFormat
           \o "\n      LOCATION 's3://" \o t.location \o "/"
           \o (IF TruthyStr(t.locationKey) THEN t.locationKey[1] \o "/" ELSE "") \o "'"
           \o "\n      TBLPROPERTIES ('has_encrypted_data' = '"
           \o (IF TruthyBool(t.encryptedData) THEN "true" ELSE "false") \o "')"

\* Variant of TableDeleteQueryString that leaves out the database.
TableDeleteQueryString_NoDatabase(databaseName, t) == "DROP TABLE " \o t.name

\* Table.constructor: deleteQueryString
TableDeleteQueryString(databaseName, t) ==
    "DROP TABLE " \o Interpolate(databaseName) \o "." \o t.name

\* new Table(scope, id, props): the tree after the constructor.
Table(st, scope, id, databaseName, workGroupName, t) ==
    LET this == Append(scope, id)
        st1 == [ st EXCEPT !.nodes = @ \cup { this } ]
        g == GetOrCreate(st1, this)
        r == CustomResource(this, g.provider, "Custom::AthenaTable",
                            TableCreateQueryString(databaseName, t),
                            TableDeleteQueryString(databaseName, t),
                            workGroupName, {})
    IN  [ g.st EXCEPT !.nodes = @ \cup { r.path },
                      !.customResources = @ \cup { r } ]

\* props.options.tables.forEach(tableOptions => new Table(this, ...))
RECURSIVE Tables(_, _, _, _, _)
Tables(st, scope, databaseName, workGroupName, tables) ==
    IF Len(tables) = 0 THEN st
    ELSE Tables(Table(st, scope, "Table" \o tables[1].name, Some(databaseName),
                      Some(workGroupName), tables[1]),
                scope, databaseName, workGroupName, Tail(tables))

\* Variant of DatabaseDependsOn without database.addDependsOn.
DatabaseDependsOn_None(workGroupResource) == {}

\* Database.constructor: database.addDependsOn(props.workGroupResource)
DatabaseDependsOn(workGroupResource) == { workGroupResource }

\* Variant of DatabaseCreateQueryString without IF NOT EXISTS.
DatabaseCreateQueryString_Plain(name) == "CREATE DATABASE " \o name

\* Database.constructor: createQueryString and deleteQueryString
DatabaseCreateQueryString(name) == "CREATE DATABASE IF NOT EXISTS " \o name
DatabaseDeleteQueryString(name) == "DROP DATABASE IF EXISTS " \o name \o " CASCADE"

\* new Database(scope, id, { workGroupResource, workGroupName, options }), the
\* class nested in a WorkGroup: the tree after the constructor.
Database(st, scope, id, workGroupResource, workGroupName, options) ==
    LET this == Append(scope, id)
        st1 == [ st EXCEPT !.nodes = @ \cup { this } ]
        g == GetOrCreate(st1, this)
        r == CustomResource(this, g.provider, "Custom::AthenaDatabase",
                            DatabaseCreateQueryString(options.name),
                            DatabaseDeleteQueryString(options.name),
                            Some(workGroupName), DatabaseDependsOn(workGroupResource))
        st2 == [ g.st EXCEPT !.nodes = @ \cup { r.path },
                             !.customResources = @ \cup { r } ]
    IN  IF options.tables # None
        THEN Tables(st2, this, options.name, workGroupName, options.tables[1])
        ELSE st2

\* props.databases.forEach(databaseOptions => new Database(this, ...))
RECURSIVE Databases(_, _, _, _, _)
Databases(st, scope, workGroupResource, workGroupName, databases) ==
    IF Len(databases) = 0 THEN st
    ELSE Databases(Database(st, scope, "Database" \o databases[1].name,
                            workGroupResource, workGroupName, databases[1]),
                   scope, workGroupResource, workGroupName, Tail(databases))

---------------------------------------------------------------------------
(* lib/work-group.ts: WorkGroup *)

\* props.recursiveDeleteOption && props.recursiveDeleteOption
RecursiveDeleteOption(props) ==
    IF TruthyBool(props.recursiveDeleteOption)
    THEN props.recursiveDeleteOption ELSE props.recursiveDeleteOption

\* (props.enabled ?? true) ? 'ENABLED' : 'DISABLED'
WorkGroupState(props) ==
    IF (IF props.enabled = None THEN TRUE ELSE props.enabled[1])
    THEN "ENABLED" ELSE "DISABLED"

\* resultConfiguration.encryptionConfiguration
EncryptionConfiguration(props) ==
    IF TruthyStr(props.resultEncryptionOption)
    THEN Some([ encryptionOption |-> props.resultEncryptionOption[1],
                kmsKey |-> IF props.resultEncryptionKmsKey # None
                           THEN Some(props.resultEncryptionKmsKey[1].keyArn)
                           ELSE props.resultEncryptionKmsKey ])
    ELSE None

\* new CfnWorkGroup(this, 'WorkGroup', {...}); the properties passed through
\* unchanged besides name are left out.
CfnWorkGroup(scope, props) ==
    [ path |-> Append(scope, "WorkGroup"),
      name |-> props.name,
      recursiveDeleteOption |-> RecursiveDeleteOption(props),
      state |-> WorkGroupState(props),
      encryptionConfiguration |-> EncryptionConfiguration(props),
      outputLocation |-> "s3://" \o props.resultOutputLocation \o "/" ]

---------------------------------------------------------------------------
(* Building an app: the constructor calls and their arguments *)

MaxConstructs == 2
MaxSerdeProperties == 3

Stacks == { << "StackA" >>, << "StackB" >> }
Bucket == "bucket"
Key == [ keyArn |-> "arn:aws:kms:key" ]
OptionalBooleans == { None, Some(TRUE), Some(FALSE) }

RegexSerDe == "org.apache.hadoop.hive.serde2.RegexSerDe"
SerdeNames == { RegexSerDe, "org.openx.data.jsonserde.JsonSerDe" }
SerdePairs == { << k, v >> : k \in { "input.regex", "field.delim" }, v \in { "^(.*)$", "," } }
SerdePropertyLists ==
    { None } \cup
    { Some(ps) : ps \in UNION { [ 1..n -> SerdePairs ] : n \in 0..MaxSerdeProperties } }

ColumnLists == { << << "ColumnA", "string" >> >>,
                 << << "ColumnA", "string" >>, << "ColumnB", "int" >> >> }
RowFormats == { Delimiters(Some(";"), None, None, None),
                Serde(RegexSerDe, Some(<< << "input.regex", "^(.*)$" >> >>)).statement }
LocationKeys == { None, Some("data"), Some("") }

TableOptions(name, columns, rf, locationKey, encryptedData) ==
    [ name |-> name, columns |-> columns, rowFormat |-> rf, fileFormat |-> TEXTFILE,
      location |-> Bucket, locationKey |-> locationKey, encryptedData |-> encryptedData ]

\* Tables differing in their location and encryption, and tables differing in
\* their columns and row format.
TableOptionsSet ==
    { TableOptions("world", << << "ColumnA", "string" >>, << "ColumnB", "int" >> >>,
                   Delimiters(Some(";"), None, None, None), lk, enc) :
        lk \in LocationKeys, enc \in OptionalBooleans }
    \cup
    { TableOptions("world", cols, rf, Some("data"), None) :
        cols \in ColumnLists, rf \in RowFormats }

DatabaseOptions(name, tables) == [ name |-> name, tables |-> tables ]

DatabaseLists ==
    { << >> }
    \cup { << DatabaseOptions(n, None) >> : n \in { "hello", "sales" } }
    \cup { << DatabaseOptions("hello", None), DatabaseOptions("sales", Some(<< >>)) >> }
    \cup { << DatabaseOptions("hello", Some(<< t >>)) >> : t \in TableOptionsSet }
    \cup { << DatabaseOptions("hello", Some(<< t, [ t EXCEPT !.name = "moon" ] >>)) >> :
             t \in { TableOptions("world", << << "ColumnA", "string" >> >>,
                                  Delimiters(Some(";"), None, None, None), None, None) } }

WorkGroupProps(name, rdo, enabled, option, key, databases) ==
    [ name |-> name, recursiveDeleteOption |-> rdo, enabled |-> enabled,
      resultEncryptionOption |-> option, resultEncryptionKmsKey |-> key,
      resultOutputLocation |-> Bucket, databases |-> databases ]

\* Workgroups without databases in every configuration, and workgroups with
\* each list of databases configured as in the tests.
WorkGroupPropsSet ==
    { WorkGroupProps("workgroup", rdo, enabled, option, key, None) :
        rdo \in OptionalBooleans, enabled \in OptionalBooleans,
        option \in { None, Some("SSE_KMS") }, key \in { None, Some(Key) } }
    \cup
    { WorkGroupProps("workgroup", Some(TRUE), None, None, None, Some(dbs)) :
        dbs \in DatabaseLists }

\* Props of the standalone Database and Table of the earlier version.
StandaloneDatabaseProps ==
    { [ name |-> n, workGroupName |-> wg ] :
        n \in { "hello", "sales" }, wg \in { None, Some("workgroup") } }
StandaloneTableOptions ==
    { TableOptions("world", cols, Delimiters(Some(";"), None, None, None),
                   Some("data"), None) : cols \in ColumnLists }
StandaloneTableProps ==
    { [ options |-> t, databaseName |-> Some("hello"), workGroupName |-> wg ] :
        t \in StandaloneTableOptions, wg \in { None, Some("workgroup") } }

\* Construct ids are unique within their scope (the construct tree rejects a
\* second child with the same id).
DistinctNames(list) == \A i, j \in 1..Len(list) : list[i].name = list[j].name => i = j

Tree == [ nodes |-> nodes, providers |-> providers, customResources |-> customResources ]

\* The number of constructs created directly under the stacks.
TopLevel == { n \in nodes : Len(n) = 2 /\ n[2] # ProviderId }

CanConstruct(scope, id) ==
    /\ phase = "build"
    /\ Append(scope, id) \notin nodes
    /\ Cardinality(TopLevel) < MaxConstructs

SetTree(st) ==
    /\ nodes' = st.nodes
    /\ providers' = st.providers
    /\ customResources' = st.customResources

\* new WorkGroup(stack, id, props), lines 132-170.
NewWorkGroup(stack, id, props) ==
    /\ CanConstruct(stack, id)
    /\ props.databases # None =>
          /\ DistinctNames(props.databases[1])
          /\ \A i \in 1..Len(props.databases[1]) :
                props.databases[1][i].tables # None =>
                   DistinctNames(props.databases[1][i].tables[1])
    /\ LET this == Append(stack, id)
           resource == CfnWorkGroup(this, props)
           st1 == [ Tree EXCEPT !.nodes = @ \cup { this, resource.path } ]
       IN  /\ workGroups' = workGroups \cup { resource }
           /\ declared' = declared \cup { [ path |-> this, props |-> props ] }
           /\ SetTree(IF props.databases # None
                      THEN Databases(st1, this, resource.path, props.name, props.databases[1])
                      ELSE st1)
    /\ UNCHANGED << phase, rowFormat, created, deleted >>
    /\ UNCHANGED handlerVars

\* new Database(stack, id, { name, workGroupName? }) of the standalone
\* version: no dependency is declared and workGroupName is optional.
NewDatabase(stack, id, props) ==
    /\ CanConstruct(stack, id)
    /\ LET this == Append(stack, id)
           g == GetOrCreate([ Tree EXCEPT !.nodes = @ \cup { this } ], this)
           r == CustomResource(this, g.provider, "Custom::AthenaDatabase",
                               DatabaseCreateQueryString(props.name),
                               DatabaseDeleteQueryString(props.name),
                               props.workGroupName, {})
       IN  SetTree([ g.st EXCEPT !.nodes = @ \cup { r.path },
                                 !.customResources = @ \cup { r } ])
    /\ UNCHANGED << phase, workGroups, declared, rowFormat, created, deleted >>
    /\ UNCHANGED handlerVars

\* new Table(stack, id, props) of the standalone version.
NewTable(stack, id, props) ==
    /\ CanConstruct(stack, id)
    /\ SetTree(Table(Tree, stack, id, props.databaseName, props.workGroupName, props.options))
    /\ UNCHANGED << phase, workGroups, declared, rowFormat, created, deleted >>
    /\ UNCHANGED handlerVars

BuildNext ==
    \/ \E stack \in Stacks, props \in WorkGroupPropsSet : NewWorkGroup(stack, "WorkGroup", props)
    \/ \E stack \in Stacks, props \in StandaloneDatabaseProps : NewDatabase(stack, "Database", props)
    \/ \E stack \in Stacks, props \in StandaloneTableProps : NewTable(stack, "Table", props)

SpecBuild == Init /\ [][BuildNext]_vars

\* RowFormat.serde(serdeName, serdeProperties) called by an app.
RowFormatSerde(serdeName, serdeProperties) ==
    /\ phase = "build"
    /\ LET r == Serde(serdeName, serdeProperties)
       IN  rowFormat' = [ called |-> TRUE, serdeName |-> serdeName,
                          given |-> serdeProperties, after |-> r.after,
                          statement |-> r.statement ]
    /\ UNCHANGED << phase, nodes, providers, workGroups, customResources,
                    declared, created, deleted >>
    /\ UNCHANGED handlerVars

RowFormatNext ==
    \E serdeName \in SerdeNames, serdeProperties \in SerdePropertyLists :
        RowFormatSerde(serdeName, serdeProperties)

SpecRowFormat == Init /\ [][RowFormatNext]_vars

---------------------------------------------------------------------------
(* Deploying the app: the provisioning framework creates and deletes the   *)
(* resources of the stacks in an order that respects their dependency      *)
(* edges. Creating or deleting a custom resource delivers the Create or    *)
(* Delete event to the handler.                                            *)

\* The resources of the app and the explicit dependency edges of each.
AllResources == { w.path : w \in workGroups } \cup { r.path : r \in customResources }
DependsOn(path) ==
    UNION { r.dependsOn : r \in { c \in customResources : c.path = path } }
Exists(path) == path \in created /\ path \notin deleted

\* The app is synthesized and its stacks are deployed.
StartDeploy ==
    /\ phase = "build"
    /\ AllResources # {}
    /\ phase' = "deploy"
    /\ UNCHANGED << nodes, providers, workGroups, customResources, declared,
                    rowFormat, created, deleted >>
    /\ UNCHANGED handlerVars

\* The framework creates a resource once everything it depends on exists.
ProvisionCreate(path) ==
    /\ phase = "deploy"
    /\ path \notin created
    /\ deleted = {}
    /\ DependsOn(path) \subseteq created
    /\ created' = created \cup { path }
    /\ UNCHANGED << phase, nodes, providers, workGroups, customResources,
                    declared, rowFormat, deleted >>
    /\ UNCHANGED handlerVars

\* The framework deletes a resource once nothing that depends on it exists.
ProvisionDelete(path) ==
    /\ phase = "deploy"
    /\ Exists(path)
    /\ \A other \in AllResources : path \in DependsOn(other) => ~Exists(other)
    /\ deleted' = deleted \cup { path }
    /\ UNCHANGED << phase, nodes, providers, workGroups, customResources,
                    declared, rowFormat, created >>
    /\ UNCHANGED handlerVars

\* The apps deployed: workgroups configured as in the tests with each list of
\* databases whose tables are those of the tests, and the standalone database
\* and table of integ.database.ts.
DeployedDatabaseLists ==
    { l \in DatabaseLists :
        \A i \in 1..Len(l) :
           l[i].tables # None =>
              \A j \in 1..Len(l[i].tables[1]) :
                 /\ l[i].tables[1][j].encryptedData = None
                 /\ l[i].tables[1][j].locationKey \in { None, Some("data") }
                 /\ l[i].tables[1][j].rowFormat = Delimiters(Some(";"), None, None, None) }

DeployedWorkGroupProps ==
    { WorkGroupProps("workgroup", Some(TRUE), None, None, None, dbs) :
        dbs \in { None } \cup { Some(l) : l \in DeployedDatabaseLists } }

DeployedDatabaseProps ==
    { p \in StandaloneDatabaseProps : p.name = "hello" /\ p.workGroupName # None }

DeployedTableProps ==
    { p \in StandaloneTableProps : Len(p.options.columns) = 2 /\ p.workGroupName # None }

DeployNext ==
    \/ \E stack \in Stacks, props \in DeployedWorkGroupProps : NewWorkGroup(stack, "WorkGroup", props)
    \/ \E stack \in Stacks, props \in DeployedDatabaseProps : NewDatabase(stack, "Database", props)
    \/ \E stack \in Stacks, props \in DeployedTableProps : NewTable(stack, "Table", props)
    \/ StartDeploy
    \/ \E path \in AllResources : ProvisionCreate(path)
    \/ \E path \in AllResources : ProvisionDelete(path)

SpecDeploy == Init /\ [][DeployNext]_vars

---------------------------------------------------------------------------
(* Properties of on_event *)

\* The invocation has ended: on_event returned or raised.
Ended == pc = "done"

\* The event carries a RequestId and the service only returned documented
\* QueryExecutionState values.
InDomain == "RequestId" \in event.keys /\ ~polled.unknown

\* C1: an invocation on an event that carries a RequestId, against a service
\* that returns only the five documented states (any sequence of them, any
\* call raising), never sends two responses, and has sent exactly one when
\* it ends.
C1_ExactlyOneResponse ==
    /\ Len(sends) <= 1
    /\ (Ended /\ InDomain => Len(sends) = 1)

\* C1 witness: invocations have ended with one response on each kind of path:
\* a property missing, a call raising, and a poll loop that ran to the end.
C1_Witness ==
    /\ Ended /\ InDomain /\ Len(sends) = 1
    /\ caught = "get_query_execution"
    /\ num_attempts > 1
    /\ "UpdateQueryString" \notin DOMAIN event.ResourceProperties

\* C2: no exception leaves on_event.
C2_NeverRaises == ~raised

\* C3 as stated: every response carries "Query" followed by the RequestId.
C3_QueryPrefix ==
    \A r \in responses : r.PhysicalResourceId = "Query" \o r.RequestId

\* C3 amended: every response, SUCCESS or FAILED, carries "AthenaQuery"
\* followed by the event's RequestId, so all responses to one RequestId carry
\* the same physical id.
C3_AthenaQueryPrefix ==
    /\ \A r \in responses : r.PhysicalResourceId = "AthenaQuery" \o r.RequestId
    /\ \A i \in 1..Len(sends) :
          sends[i].PhysicalResourceId = "AthenaQuery" \o event.RequestId
    /\ \A r1, r2 \in responses :
          r1.RequestId = r2.RequestId => r1.PhysicalResourceId = r2.PhysicalResourceId

\* C3 witness: the empty RequestId has been answered with a SUCCESS and with
\* a FAILED, and another RequestId has been answered too.
C3_Witness ==
    /\ \E r1, r2 \in responses :
          /\ r1.RequestId = "" /\ r2.RequestId = ""
          /\ r1.Status = SUCCESS /\ r2.Status = FAILED
    /\ \E r \in responses : r.RequestId = "r1"

\* C4: the statement submitted for a Create, Update or Delete event is the
\* value of CreateQueryString, UpdateQueryString or DeleteQueryString, and of
\* the three statement properties only that one has been read.
C4_SelectsStatement ==
    \A rt \in { "Create", "Update", "Delete" } :
       (pc # "idle" /\ "RequestType" \in event.keys /\ event.RequestType = rt) =>
          /\ fieldsRead \subseteq { rt \o "QueryString", "WorkGroup" }
          /\ \A i \in 1..Len(startCalls) :
                startCalls[i].QueryString = event.ResourceProperties[rt \o "QueryString"]

\* C4 witness: an Update event whose properties hold no Create or Delete
\* statement has been submitted.
C4_Witness ==
    /\ event.RequestType = "Update"
    /\ DOMAIN event.ResourceProperties = { "UpdateQueryString", "WorkGroup" }
    /\ Len(startCalls) = 1
    /\ startCalls[1].QueryString = "ALTER DATABASE hello"
    /\ pc = "poll"

\* C5: when the last poll returned FAILED or CANCELLED the invocation ends with
\* one SUCCESS response with empty data, whether or not the status carried a
\* StateChangeReason.
C5_FailedIsSuccess ==
    (Ended /\ execution_state \in { "FAILED", "CANCELLED" }) =>
        /\ Len(sends) = 1
        /\ sends[1].Status = SUCCESS
        /\ sends[1].Data = EmptyData

\* C6: when the polls returned k-1 QUEUED/RUNNING states and then SUCCEEDED,
\* the invocation ends with one SUCCESS response with empty data after k
\* polls (k <= max_attempts) and k-1 sleeps; before each poll there has been
\* one sleep per non-terminal poll so far, and none follows the last poll.
C6_SucceededAfterKPolls ==
    /\ (pc = "poll" => sleeps = polled.nonTerminal /\ sleeps = num_attempts)
    /\ (pc = "sleep" => sleeps = num_attempts - 1)
    /\ (Ended /\ execution_state = "SUCCEEDED") =>
          /\ Len(sends) = 1
          /\ sends[1].Status = SUCCESS
          /\ sends[1].Data = EmptyData
          /\ num_attempts >= 1 /\ num_attempts <= max_attempts
          /\ Len(getCalls) = num_attempts
          /\ polled.nonTerminal = num_attempts - 1
          /\ sleeps = num_attempts - 1
          /\ slept = sleep_amount * (num_attempts - 1)

\* C6 witness: SUCCEEDED came at the last allowed poll.
C6_Witness ==
    /\ Ended /\ execution_state = "SUCCEEDED"
    /\ num_attempts = max_attempts
    /\ sleeps = max_attempts - 1

\* C7: when start_query_execution raises, the invocation ends with one FAILED
\* response and no get_query_execution call; when get_query_execution raises,
\* it ends with one FAILED response and that call was the last call to the
\* service; the response carries the physical id a SUCCESS carries.
C7_ServiceErrorIsFailure ==
    /\ caught = "start_query_execution" =>
          /\ Ended /\ Len(getCalls) = 0 /\ Len(startCalls) = 1
    /\ caught = "get_query_execution" =>
          /\ Ended /\ Len(getCalls) = num_attempts + 1
    /\ caught \in { "start_query_execution", "get_query_execution" } =>
          /\ Len(sends) = 1
          /\ sends[1].Status = FAILED
          /\ sends[1].PhysicalResourceId = physical_id
          /\ physical_id = "AthenaQuery" \o event.RequestId
          /\ callsAfterSend = 0

\* C7 witness: get_query_execution raised at the third poll.
C7_Witness ==
    /\ caught = "get_query_execution"
    /\ Len(getCalls) = 3
    /\ Len(sends) = 1

\* C8: an invocation makes at most max_attempts get_query_execution calls:
\* num_attempts never exceeds max_attempts, and the handler is outside the
\* loop once num_attempts has reached it.
C8_AtMostMaxAttempts ==
    /\ num_attempts <= max_attempts
    /\ Len(getCalls) <= max_attempts
    /\ (pc \in { "poll", "sleep" } => num_attempts < max_attempts)

\* C8 witness: the last allowed poll still returned a non-terminal state.
C8_Witness ==
    /\ Ended /\ num_attempts = max_attempts
    /\ Len(getCalls) = max_attempts
    /\ execution_state = "QUEUED"

\* C9 as stated: when the poll that reaches max_attempts returns QUEUED or
\* RUNNING, the invocation ends without a response.
C9_NoResponseAtCeiling ==
    (Ended /\ num_attempts = max_attempts /\ execution_state \in NonTerminal) =>
        Len(sends) = 0

\* C9 amended: when the poll that reaches max_attempts returns QUEUED or
\* RUNNING, the handler takes the failed-or-cancelled branch: the invocation
\* ends at once, without a further sleep, with exactly one response, SUCCESS
\* with empty data when the status carried a StateChangeReason (which is
\* logged) and FAILED when it did not.
C9_ResponseAtCeiling ==
    (num_attempts = max_attempts /\ execution_state \in NonTerminal) =>
        /\ Ended
        /\ sleeps = max_attempts - 1
        /\ Len(sends) = 1
        /\ sends[1].Data = EmptyData
        /\ IF polled.reason = Unbound
           THEN sends[1].Status = FAILED /\ caught = "KeyError: StateChangeReason"
           ELSE /\ sends[1].Status = SUCCESS
                /\ ("Query failed or cancelled: " \o polled.reason) \in logged

\* C9 witness: the ceiling was reached on RUNNING with a reason.
C9_Witness ==
    /\ Ended /\ num_attempts = max_attempts /\ execution_state = "RUNNING"
    /\ polled.reason # Unbound
    /\ Len(sends) = 1 /\ sends[1].Status = SUCCESS

\* C10: an event that lacks only the WorkGroup property is submitted and
\* polled like one that has it: once the event has been read the handler is
\* about to submit or has submitted, and no KeyError on WorkGroup is caught.
C10_WorkGroupOptional ==
    (/\ pc # "idle"
     /\ EventKeys \subseteq event.keys
     /\ DOMAIN event.ResourceProperties = PropKeys \ { "WorkGroup" }) =>
        /\ caught # "KeyError: WorkGroup"
        /\ pc = "submit" \/ Len(startCalls) = 1

\* C11: an event that lacks RequestId, RequestType, ResourceProperties or the
\* statement property selected by RequestType ends the invocation at once
\* with exactly one FAILED response and no statement submitted.
C11_MalformedIsFailure ==
    (/\ pc # "idle"
     /\ \/ ~(EventKeys \subseteq event.keys)
        \/ /\ event.RequestType \in { "Create", "Update", "Delete" }
           /\ (event.RequestType \o "QueryString") \notin DOMAIN event.ResourceProperties) =>
        /\ Ended
        /\ Len(startCalls) = 0
        /\ Len(sends) = 1
        /\ sends[1].Status = FAILED

\* C18: for a RequestType other than Create, Update or Delete (the event
\* otherwise carrying RequestId and a WorkGroup property) the handler reads no
\* statement property, submits the empty string and polls; the response
\* follows from the polls as for any other event.
C18_UnrecognizedSubmitsEmpty ==
    (/\ pc # "idle"
     /\ EventKeys \subseteq event.keys
     /\ event.RequestType \notin { "Create", "Update", "Delete" }
     /\ "WorkGroup" \in DOMAIN event.ResourceProperties) =>
        /\ fieldsRead = { "WorkGroup" }
        /\ pc = "submit" \/ Len(startCalls) = 1
        /\ \A i \in 1..Len(startCalls) :
              /\ startCalls[i].QueryString = ""
              /\ startCalls[i].WorkGroup = event.ResourceProperties["WorkGroup"]
        /\ caught \in { NoException, "start_query_execution", "get_query_execution",
                        "KeyError: StateChangeReason" }
        /\ (Ended /\ caught = NoException /\ execution_state \in Terminal) =>
              (Len(sends) = 1 /\ sends[1].Status = SUCCESS)
        /\ (Ended /\ caught # NoException) =>
              (Len(sends) = 1 /\ sends[1].Status = FAILED)

\* C18 witness: a Replace event whose properties hold only WorkGroup was
\* submitted as the empty statement, polled three times and answered SUCCESS.
C18_Witness ==
    /\ Ended
    /\ event.RequestType = "Replace" /\ EventKeys \subseteq event.keys
    /\ DOMAIN event.ResourceProperties = { "WorkGroup" }
    /\ Len(startCalls) = 1 /\ startCalls[1].QueryString = ""
    /\ num_attempts = 3 /\ execution_state = "SUCCEEDED"
    /\ Len(sends) = 1 /\ sends[1].Status = SUCCESS

\* C19: against a service returning the documented states, every sleep
\* follows a poll that returned QUEUED or RUNNING and comes before any
\* response, adds exactly 2 to the time slept, and the time slept in one
\* invocation never exceeds 40; once a response is sent the invocation has
\* ended.
C19_SleepsBounded ==
    /\ [](/\ slept = 2 * sleeps
          /\ slept <= 40
          /\ (Len(sends) > 0 => Ended))
    /\ [][sleeps' > sleeps =>
             /\ sleeps' = sleeps + 1
             /\ slept' = slept + 2
             /\ pc = "sleep"
             /\ Len(sends) = 0
             /\ (execution_state \in NonTerminal \/ polled.unknown)]_vars

\* C19 witness: the invocation has slept after every poll but the last
\* allowed one.
C19_Witness ==
    /\ Ended /\ sleeps = 19 /\ slept = 38
    /\ num_attempts = 20 /\ Len(sends) = 1

\* C22: within one invocation start_query_execution is called at most once
\* and before any get_query_execution call, the execution id it returned stays
\* the invocation's query_id and is the id of every get_query_execution call,
\* and no query-service call is made once a response has been sent.
C22_OneSubmission ==
    /\ [](/\ Len(startCalls) <= 1
          /\ Len(getCalls) > 0 => (Len(startCalls) = 1 /\ query_id # Unbound)
          /\ \A i \in 1..Len(getCalls) : getCalls[i] = query_id
          /\ callsAfterSend = 0)
    /\ [][pc' # "idle" =>
            /\ startCalls' # startCalls => (getCalls = << >> /\ sends = << >>)
            /\ getCalls' # getCalls => (Len(startCalls) = 1 /\ sends = << >>)
            /\ query_id # Unbound => query_id' = query_id]_vars

\* C22 witness: an invocation ended with its response after one submission
\* and several polls.
C22_Witness ==
    /\ Ended
    /\ Len(startCalls) = 1
    /\ Len(getCalls) >= 3
    /\ Len(sends) = 1

\* C23: when the submission succeeded and no exception was caught, the
\* invocation ends with a response sent, whatever states the service returned.
C23_LoopEndsWithResponse ==
    (Ended /\ Len(startCalls) = 1 /\ caught = NoException) => Len(sends) >= 1

---------------------------------------------------------------------------
(* Properties of the constructs *)

\* The custom resources and the providers constructed in a stack.
ResourcesIn(stack) == { r \in customResources : r.path[1] = stack[1] }
ProvidersIn(stack) == { i \in DOMAIN providers : providers[i][1] = stack[1] }

\* The CfnWorkGroup rendered by the WorkGroup constructor call d.
Rendered(d) == CHOOSE w \in workGroups : w.path = Append(d.path, "WorkGroup")

\* C12: after any Database and Table constructions, nested in a WorkGroup or
\* standalone, every stack that holds such a resource has had exactly one
\* QueryProvider constructed, as the stack's child with id
\* 'com.amazonaws.cdk.athena.query-provider'; all resources of the stack use
\* it and resources of different stacks use different providers.
C12_OneProviderPerStack ==
    /\ \A stack \in Stacks :
          /\ Cardinality(ProvidersIn(stack)) <= 1
          /\ ResourcesIn(stack) # {} =>
                /\ Cardinality(ProvidersIn(stack)) = 1
                /\ { n \in nodes : n[1] = stack[1] /\ n[Len(n)] = ProviderId }
                      = { << stack[1], ProviderId >> }
                /\ \A r \in ResourcesIn(stack) : r.provider = << stack[1], ProviderId >>
    /\ \A r1, r2 \in customResources :
          r1.path[1] # r2.path[1] => r1.provider # r2.provider

\* C12 witness: one stack holds a workgroup with a database and a table, the
\* other a standalone database.
C12_Witness ==
    /\ \E r1, r2 \in ResourcesIn(<< "StackA" >>) :
          /\ r1.type = "Custom::AthenaDatabase" /\ Len(r1.path) = 4
          /\ r2.type = "Custom::AthenaTable" /\ Len(r2.path) = 5
    /\ \E r \in ResourcesIn(<< "StackB" >>) : Len(r.path) = 3
    /\ Len(providers) = 2

\* C13: a workgroup given resultEncryptionKmsKey is rendered with an
\* encryptionConfiguration whose encryptionOption is set and whose kmsKey is
\* the key's ARN, with or without resultEncryptionOption; given neither, it
\* has no encryptionConfiguration.
C13_KmsKeySetsEncryption ==
    \A d \in declared :
       /\ d.props.resultEncryptionKmsKey # None =>
             /\ Rendered(d).encryptionConfiguration # None
             /\ Rendered(d).encryptionConfiguration[1].encryptionOption # ""
             /\ Rendered(d).encryptionConfiguration[1].kmsKey
                   = Some(d.props.resultEncryptionKmsKey[1].keyArn)
       /\ (d.props.resultEncryptionKmsKey = None /\ d.props.resultEncryptionOption = None) =>
             Rendered(d).encryptionConfiguration = None

\* C14: a workgroup is rendered with recursiveDeleteOption true when the
\* property is omitted and with the given value otherwise, and with state
\* DISABLED when enabled is false and ENABLED otherwise.
C14_WorkGroupDefaults ==
    \A d \in declared :
       /\ Rendered(d).recursiveDeleteOption =
             (IF d.props.recursiveDeleteOption = None THEN Some(TRUE)
              ELSE d.props.recursiveDeleteOption)
       /\ Rendered(d).state =
             (IF d.props.enabled = Some(FALSE) THEN "DISABLED" ELSE "ENABLED")

\* C15: for every database n declared on a workgroup there is a
\* Custom::AthenaDatabase resource whose CreateQueryString and
\* UpdateQueryString are 'CREATE DATABASE IF NOT EXISTS n' and whose
\* DeleteQueryString is 'DROP DATABASE IF EXISTS n CASCADE'; the statement the
\* handler selects for an Update is the Create statement.
C15_DatabaseStatements ==
    \A d \in declared :
       d.props.databases # None =>
          \A i \in 1..Len(d.props.databases[1]) :
             LET n == d.props.databases[1][i].name
             IN  \E r \in customResources :
                    /\ r.path = d.path \o << "Database" \o n, "Resource" >>
                    /\ r.type = "Custom::AthenaDatabase"
                    /\ r.properties["CreateQueryString"] = "CREATE DATABASE IF NOT EXISTS " \o n
                    /\ r.properties["UpdateQueryString"] = "CREATE DATABASE IF NOT EXISTS " \o n
                    /\ r.properties["DeleteQueryString"] = "DROP DATABASE IF EXISTS " \o n \o " CASCADE"
                    /\ r.properties[SelectedKey("Update")] = r.properties["CreateQueryString"]
                    /\ (n = "hello" =>
                          r.properties["CreateQueryString"] = "CREATE DATABASE IF NOT EXISTS hello")

\* C15 witness: a workgroup declaring the databases hello and sales has been
\* constructed.
C15_Witness ==
    \E d \in declared :
       /\ d.props.databases # None /\ Len(d.props.databases[1]) = 2
       /\ \E r \in customResources :
             /\ r.path = d.path \o << "Databasesales", "Resource" >>
             /\ r.properties["DeleteQueryString"] = "DROP DATABASE IF EXISTS sales CASCADE"

\* The statement C16 describes for a serde name and its properties.
SerdeStatement(serdeName, serdeProperties) ==
    "SERDE '" \o serdeName \o "'" \o
    (IF serdeProperties # None /\ Len(serdeProperties[1]) > 0
     THEN " WITH SERDEPROPERTIES (" \o
          Join([ i \in 1..Len(serdeProperties[1]) |->
                   "\"" \o serdeProperties[1][i][1] \o "\" = \""
                        \o serdeProperties[1][i][2] \o "\"" ], ", ") \o ")"
     ELSE "")

\* C16: RowFormat.serde(name, properties) renders SERDE '<name>' followed,
\* when properties are given, by WITH SERDEPROPERTIES ("<key>" = "<value>", ...)
\* in the given order, and leaves the caller's list as it was.
C16_SerdeStatement ==
    rowFormat.called =>
       /\ rowFormat.statement = SerdeStatement(rowFormat.serdeName, rowFormat.given)
       /\ rowFormat.after = rowFormat.given

\* The statement C17 describes for table t of database db.
TableStatement(db, t) ==
    "\n      CREATE EXTERNAL TABLE IF NOT EXISTS " \o db \o "." \o t.name \o " ("
       \o (IF Len(t.columns) = 1
           THEN t.columns[1][1] \o " " \o t.columns[1][2]
           ELSE t.columns[1][1] \o " " \o t.columns[1][2] \o ","
                   \o t.columns[2][1] \o " " \o t.columns[2][2])
       \o ")\n      ROW FORMAT " \o t.rowFormat
       \o "\n      STORED AS " \o t.fileFormat
       \o "\n      LOCATION 's3://" \o t.location \o "/"
       \o (IF t.locationKey \in { None, Some("") } THEN "" ELSE t.locationKey[1] \o "/")
       \o "'\n      TBLPROPERTIES ('has_encrypted_data' = '"
       \o (IF t.encryptedData = Some(TRUE) THEN "true" ELSE "false") \o "')"

\* C17: for every table declared under a database of a workgroup there is a
\* Custom::AthenaTable resource whose CreateQueryString and UpdateQueryString
\* are the CREATE EXTERNAL TABLE statement of the table (location key followed
\* by '/' when one is given and not empty, has_encrypted_data 'true' exactly
\* when encryptedData is true), whose DeleteQueryString is
\* 'DROP TABLE <db>.<table>' and whose WorkGroup is the workgroup's name.
C17_TableStatements ==
    \A d \in declared :
       d.props.databases # None =>
          \A i \in 1..Len(d.props.databases[1]) :
             LET db == d.props.databases[1][i]
             IN  db.tables # None =>
                    \A j \in 1..Len(db.tables[1]) :
                       LET t == db.tables[1][j]
                       IN  \E r \in customResources :
                              /\ r.path = d.path \o << "Database" \o db.name,
                                                       "Table" \o t.name, "Resource" >>
                              /\ r.type = "Custom::AthenaTable"
                              /\ r.properties["CreateQueryString"] = TableStatement(db.name, t)
                              /\ r.properties["UpdateQueryString"] = TableStatement(db.name, t)
                              /\ r.properties["DeleteQueryString"]
                                    = "DROP TABLE " \o db.name \o "." \o t.name
                              /\ r.properties["WorkGroup"] = d.props.name
                              /\ (t = TableOptions("world",
                                        << << "ColumnA", "string" >>, << "ColumnB", "int" >> >>,
                                        "DELIMITED FIELDS TERMINATED BY ';'", None, None) =>
                                    r.properties["CreateQueryString"] =
                                       "\n      CREATE EXTERNAL TABLE IF NOT EXISTS hello.world (ColumnA string,ColumnB int)\n      ROW FORMAT DELIMITED FIELDS TERMINATED BY ';'\n      STORED AS TEXTFILE\n      LOCATION 's3://bucket/'\n      TBLPROPERTIES ('has_encrypted_data' = 'false')")

\* C17 witness: a table with a location key and encrypted data, and the table
\* of the package's test, have been rendered.
C17_Witness ==
    /\ \E r \in customResources :
          /\ r.type = "Custom::AthenaTable" /\ Len(r.path) = 5
          /\ r.properties["CreateQueryString"] =
                "\n      CREATE EXTERNAL TABLE IF NOT EXISTS hello.world (ColumnA string,ColumnB int)\n      ROW FORMAT DELIMITED FIELDS TERMINATED BY ';'\n      STORED AS TEXTFILE\n      LOCATION 's3://bucket/data/'\n      TBLPROPERTIES ('has_encrypted_data' = 'true')"
    /\ \E r \in customResources :
          /\ r.type = "Custom::AthenaTable" /\ Len(r.path) = 5
          /\ r.properties["CreateQueryString"] =
                "\n      CREATE EXTERNAL TABLE IF NOT EXISTS hello.world (ColumnA string,ColumnB int)\n      ROW FORMAT DELIMITED FIELDS TERMINATED BY ';'\n      STORED AS TEXTFILE\n      LOCATION 's3://bucket/'\n      TBLPROPERTIES ('has_encrypted_data' = 'false')"

\* The CfnWorkGroup of the workgroup in which the resource at path is nested.
WorkGroupOf(path) == << path[1], path[2], "WorkGroup" >>

\* The Custom::AthenaDatabase resources of the databases declared on
\* workgroups.
DeclaredDatabases ==
    { r \in customResources :
        /\ r.type = "Custom::AthenaDatabase"
        /\ \E d \in declared :
              /\ d.props.databases # None
              /\ \E i \in 1..Len(d.props.databases[1]) :
                    r.path = d.path \o << "Database" \o d.props.databases[1][i].name,
                                          "Resource" >> }

\* C20: the resource of every database declared on a workgroup depends on the
\* workgroup's CfnWorkGroup, so in a deployment it is created only when the
\* CfnWorkGroup has been created, and the CfnWorkGroup is deleted only when
\* the database resource has been deleted.
C20_DatabaseAfterWorkGroup ==
    \A r \in DeclaredDatabases :
       /\ WorkGroupOf(r.path) \in { w.path : w \in workGroups }
       /\ WorkGroupOf(r.path) \in r.dependsOn
       /\ r.path \in created => WorkGroupOf(r.path) \in created
       /\ (WorkGroupOf(r.path) \in deleted /\ r.path \in created) => r.path \in deleted

\* C20 witness: a workgroup with two databases has been created and deleted
\* again, databases first.
C20_Witness ==
    /\ Cardinality(DeclaredDatabases) = 2
    /\ \A r \in DeclaredDatabases :
          r.path \in deleted /\ WorkGroupOf(r.path) \in deleted

\* The Custom::AthenaDatabase resource of the database constructed at the
\* same place as the table whose resource is at path.
DatabaseOf(path) == << path[1], path[2], path[3], "Resource" >>

\* The Custom::AthenaTable resources of the tables declared on the databases
\* of workgroups.
DeclaredTables ==
    { r \in customResources : r.type = "Custom::AthenaTable" /\ Len(r.path) = 5 }

\* C21: in a deployment the resource of a table declared on a database is
\* created only when the database's resource has been created, and the
\* database's resource is deleted only when the table's has been deleted.
C21_TableAfterDatabase ==
    \A r \in DeclaredTables :
       /\ r.path \in created => DatabaseOf(r.path) \in created
       /\ (DatabaseOf(r.path) \in deleted /\ r.path \in created) => r.path \in deleted

=============================================================================
